---- MODULE Spec2Model ----
(***************************************************************************)
(* State-machine model of the kvstore storage engine (KeyValueDb.rs):      *)
(* the two in-memory maps, the four dump policies, the temp-file + rename  *)
(* dump, and the rollback each mutating operation performs when its        *)
(* conditional dump fails.                                                 *)
(***************************************************************************)
EXTENDS Integers, Sequences, FiniteSets, TLC

(* ------------------------------ bounds -------------------------------- *)

\* Longest list the model lets ladd and lextend build.
MaxListLen == 2

\* Last clock value (seconds); the clock stops there.
MaxTime == 1

\* Largest number of bytes a failing temp-file write leaves on disk.
MaxPartial == 1

\* Longest list built in the runs that vary the policy and the clock.
ShortListLen == 1

(* --------------------------- input domains ---------------------------- *)

Keys == {"a", "b"}

KeySeq == <<"a", "b">>

IntV(n) == [t |-> "int", v |-> n]

StrV(n) == [t |-> "str", v |-> n]

\* A value whose Serialize implementation reports an error.
BadV == [t |-> "bad", v |-> 0]

NoValue == [t |-> "none", v |-> 0]

Values == {IntV(1), StrV(1)}

Types == {"int", "str"}

\* Durations d of PeriodicDump(d), in clock ticks.
Durations == {0, 1}

\* How long one dump's file I/O may take, in clock ticks.
DumpTicks == {0, 1}

Policies ==
    {[kind |-> "NeverDump", dur |-> 0], [kind |-> "AutoDump", dur |-> 0],
     [kind |-> "DumpUponRequest", dur |-> 0]}
    \cup {[kind |-> "PeriodicDump", dur |-> d] : d \in Durations}

(* ------------------------ Serializer abstraction ----------------------- *)
(* serialization.rs is not part of the sources at hand; the codec below    *)
(* follows the contract of the specification (section 4.2): a value codec  *)
(* whose decoding is typed, and a snapshot codec for the pair of maps.     *)

Some(x) == [some |-> TRUE, v |-> x]

None == [some |-> FALSE, v |-> NoValue]

\* encode_value: an integer is its digit, a string is quoted.
serialize_data(value) ==
    CASE value.t = "int" -> [ok |-> TRUE, bytes |-> <<value.v>>]
      [] value.t = "str" -> [ok |-> TRUE, bytes |-> <<34, value.v, 34>>]
      [] OTHER -> [ok |-> FALSE, bytes |-> <<>>]

\* decode_value::<V>: absent when the bytes are not a V.
deserialize_data(type, bytes) ==
    CASE type = "int" /\ Len(bytes) = 1 /\ bytes[1] \in 0..9 ->
            Some(IntV(bytes[1]))
      [] type = "str" /\ Len(bytes) = 3 /\ bytes[1] = 34 /\ bytes[3] = 34 ->
            Some(StrV(bytes[2]))
      [] OTHER -> None

SerValues == {serialize_data(v).bytes : v \in Values}

KeyCode(k) == IF k = "a" THEN 1 ELSE 2

KeyOfCode(c) == IF c = 1 THEN "a" ELSE "b"

EmptyMap == [k \in {} |-> <<>>]

RECURSIVE EncScalarsFrom(_, _)
EncScalarsFrom(m, i) ==
    IF i > Len(KeySeq) THEN <<>>
    ELSE LET k == KeySeq[i] IN
         (IF k \in DOMAIN m THEN <<KeyCode(k), Len(m[k])>> \o m[k] ELSE <<>>)
            \o EncScalarsFrom(m, i + 1)

RECURSIVE EncElems(_, _)
EncElems(list, i) ==
    IF i > Len(list) THEN <<>>
    ELSE <<Len(list[i])>> \o list[i] \o EncElems(list, i + 1)

RECURSIVE EncListsFrom(_, _)
EncListsFrom(l, i) ==
    IF i > Len(KeySeq) THEN <<>>
    ELSE LET k == KeySeq[i] IN
         (IF k \in DOMAIN l
            THEN <<KeyCode(k), Len(l[k])>> \o EncElems(l[k], 1) ELSE <<>>)
            \o EncListsFrom(l, i + 1)

\* encode_snapshot: one buffer holding the pair (scalars, lists), each map
\* as its entry count followed by length-prefixed entries.
serialize_db(m, l) ==
    <<Cardinality(DOMAIN m)>> \o EncScalarsFrom(m, 1)
        \o <<Cardinality(DOMAIN l)>> \o EncListsFrom(l, 1)

DecFail == [ok |-> FALSE, m |-> EmptyMap, pos |-> 0]

RECURSIVE DecScalarEntries(_, _, _, _)
DecScalarEntries(b, pos, n, acc) ==
    IF n = 0 THEN [ok |-> TRUE, m |-> acc, pos |-> pos]
    ELSE IF pos + 1 > Len(b) THEN DecFail
    ELSE IF b[pos] \notin {KeyCode(k) : k \in Keys}
              \/ pos + 1 + b[pos + 1] > Len(b) THEN DecFail
    ELSE DecScalarEntries(b, pos + 2 + b[pos + 1], n - 1,
            (KeyOfCode(b[pos]) :> SubSeq(b, pos + 2, pos + 1 + b[pos + 1]))
                @@ acc)

RECURSIVE DecElems(_, _, _, _)
DecElems(b, pos, n, acc) ==
    IF n = 0 THEN [ok |-> TRUE, m |-> acc, pos |-> pos]
    ELSE IF pos > Len(b) \/ pos + b[pos] > Len(b) THEN DecFail
    ELSE DecElems(b, pos + 1 + b[pos], n - 1,
            Append(acc, SubSeq(b, pos + 1, pos + b[pos])))

RECURSIVE DecListEntries(_, _, _, _)
DecListEntries(b, pos, n, acc) ==
    IF n = 0 THEN [ok |-> TRUE, m |-> acc, pos |-> pos]
    ELSE IF pos + 1 > Len(b) THEN DecFail
    ELSE IF b[pos] \notin {KeyCode(k) : k \in Keys} THEN DecFail
    ELSE LET es == DecElems(b, pos + 2, b[pos + 1], <<>>) IN
         IF ~es.ok THEN DecFail
         ELSE DecListEntries(b, es.pos, n - 1, (KeyOfCode(b[pos]) :> es.m) @@ acc)

\* decode_snapshot: both maps, or an error when the buffer is not exactly
\* one snapshot document.
deserialize_db(b) ==
    IF Len(b) = 0 THEN [ok |-> FALSE, map |-> EmptyMap, list_map |-> EmptyMap]
    ELSE LET s == DecScalarEntries(b, 2, b[1], EmptyMap) IN
         IF ~s.ok \/ s.pos > Len(b)
           THEN [ok |-> FALSE, map |-> EmptyMap, list_map |-> EmptyMap]
         ELSE LET l == DecListEntries(b, s.pos + 1, b[s.pos], EmptyMap) IN
              IF ~l.ok \/ l.pos # Len(b) + 1
                THEN [ok |-> FALSE, map |-> EmptyMap, list_map |-> EmptyMap]
              ELSE [ok |-> TRUE, map |-> s.m, list_map |-> l.m]

(* ------------------------------ the world ----------------------------- *)
(* A world w is one Store plus the file system and clock it works against: *)
(*   map, list_map, dump_policy, last_dump   the fields of KeyValueDb      *)
(*   file    the backing file db_file_path: [exists, bytes]                *)
(*   temps   the seconds s for which a file <path>.temp.<s> exists; a dump *)
(*           rewrites its temp file completely before renaming it, so the  *)
(*           content of a left-over temp file is never read                *)
(*   now     the clock, in seconds                                         *)

NoFile == [exists |-> FALSE, bytes |-> <<>>]

FileOf(bytes) == [exists |-> TRUE, bytes |-> bytes]

Insert(m, k, v) == (k :> v) @@ m

Remove(m, k) == [x \in DOMAIN m \ {k} |-> m[x]]

Min(x, y) == IF x < y THEN x ELSE y

RemoveAt(list, pos) ==
    SubSeq(list, 1, pos - 1) \o SubSeq(list, pos + 1, Len(list))

InsertAt(list, pos, e) ==
    SubSeq(list, 1, pos - 1) \o <<e>> \o SubSeq(list, pos, Len(list))

\* What a call hands back besides the new world.
RetUnit == [tag |-> "unit", b |-> FALSE, n |-> 0, v |-> NoValue, name |-> ""]

RetBool(b) == [RetUnit EXCEPT !.tag = "bool", !.b = b]

RetUsize(n) == [RetUnit EXCEPT !.tag = "usize", !.n = n]

RetExtender(name) == [RetUnit EXCEPT !.tag = "extender", !.name = name]

RetNone == [RetUnit EXCEPT !.tag = "none"]

RetValue(opt) ==
    IF opt.some THEN [RetUnit EXCEPT !.tag = "value", !.v = opt.v] ELSE RetNone

NoSnap == [some |-> FALSE, map |-> EmptyMap, list_map |-> EmptyMap]

\* The outcome of a call: the world after it, the error it returned ("none",
\* "Io" or "Serialization"), its return value, how many times it called
\* dump(), the maps written by its last dump that renamed the temp file over
\* the backing file, and whether a dump() it called returned an error.
Result(w, err, ret, calls, snap) ==
    [w |-> w, err |-> err, ret |-> ret, calls |-> calls, snap |-> snap,
     failed |-> FALSE]

\* The outcome of a dump() that returns err.
DumpError(w, err) == [Result(w, err, RetUnit, 1, NoSnap) EXCEPT !.failed = TRUE]

\* The fate of one dump's I/O, chosen by the environment:
\*   res   "ok", or the step that fails: "ser" (serialize_db), "write"
\*         (fs::write of the temp file), "rename" (fs::rename)
\*   cut   bytes a failing write leaves in the temp file (0: none created)
\*   dt    seconds the I/O of a dump that succeeds takes (a failing one is
\*         followed by clock ticks instead)
Outcomes ==
    {[res |-> "ok", cut |-> 0, dt |-> dt] : dt \in DumpTicks}
    \cup {[res |-> r, cut |-> 0, dt |-> 0] : r \in {"ser", "rename"}}
    \cup {[res |-> "write", cut |-> c, dt |-> 0] : c \in 0..MaxPartial}

OkNow == [res |-> "ok", cut |-> 0, dt |-> 0]

Partial(bytes, cut) == SubSeq(bytes, 1, Min(cut, Len(bytes) - 1))

\* The outcome of a dump() that replaced the backing file with ser_db after
\* dt seconds of I/O.
DumpDone(w, ser_db, temp_file_path, dt) ==
    Result([w EXCEPT !.file = FileOf(ser_db),
                     !.temps = @ \ {temp_file_path},
                     !.now = w.now + dt,
                     !.last_dump = IF w.dump_policy.kind = "PeriodicDump"
                                     THEN w.now + dt ELSE @],
           "none", RetUnit, 1,
           [some |-> TRUE, map |-> w.map, list_map |-> w.list_map])

\* The temp file of a dump() begun in world w: <path>.temp.<unix-seconds>,
\* identified by the second the call reads from the system clock.
TempPathOf(w) == w.now

\* dump() writing straight to the backing file instead of a temp file.
dump_in_place(w, o) ==
    IF w.dump_policy.kind = "NeverDump" THEN Result(w, "none", RetUnit, 1, NoSnap)
    ELSE IF o.res = "ser" THEN DumpError(w, "Serialization")
    ELSE LET ser_db == serialize_db(w.map, w.list_map) IN
         IF o.res = "write"
           THEN DumpError([w EXCEPT !.file = FileOf(Partial(ser_db, o.cut))], "Io")
           ELSE DumpDone(w, ser_db, w.now, o.dt)

\* dump() going on to the rename after a failed write of the temp file.
dump_rename_anyway(w, o) ==
    IF w.dump_policy.kind = "NeverDump" THEN Result(w, "none", RetUnit, 1, NoSnap)
    ELSE IF o.res = "ser" THEN DumpError(w, "Serialization")
    ELSE LET ser_db == serialize_db(w.map, w.list_map) IN
         IF o.res = "write" /\ o.cut > 0
           THEN DumpError([w EXCEPT !.file = FileOf(Partial(ser_db, o.cut))], "Io")
         ELSE IF o.res \in {"write", "rename"}
           THEN DumpError([w EXCEPT !.temps = @ \cup {w.now}], "Io")
         ELSE DumpDone(w, ser_db, w.now, o.dt)

\* dump() without the early return under NeverDump.
dump_always(w, o) ==
    IF o.res = "ser" THEN DumpError(w, "Serialization")
    ELSE LET ser_db == serialize_db(w.map, w.list_map) IN
         IF o.res = "write"
           THEN DumpError([w EXCEPT !.temps = IF o.cut > 0 THEN @ \cup {w.now} ELSE @],
                          "Io")
         ELSE IF o.res = "rename"
           THEN DumpError([w EXCEPT !.temps = @ \cup {w.now}], "Io")
         ELSE DumpDone(w, ser_db, w.now, o.dt)

\* dump() that leaves last_dump alone when it succeeds.
dump_no_timestamp(w, o) ==
    IF w.dump_policy.kind = "NeverDump" THEN Result(w, "none", RetUnit, 1, NoSnap)
    ELSE IF o.res = "ser" THEN DumpError(w, "Serialization")
    ELSE LET ser_db == serialize_db(w.map, w.list_map)
             temp_file_path == w.now
         IN  IF o.res = "write"
               THEN DumpError([w EXCEPT !.temps = IF o.cut > 0
                                                    THEN @ \cup {temp_file_path}
                                                    ELSE @], "Io")
             ELSE IF o.res = "rename"
               THEN DumpError([w EXCEPT !.temps = @ \cup {temp_file_path}], "Io")
             ELSE [DumpDone(w, ser_db, temp_file_path, o.dt)
                      EXCEPT !.w.last_dump = w.last_dump]

\* KeyValueDb::dump: serialize both maps, write them to <path>.temp.<secs>,
\* rename that file over the backing file.
dump(w, o) ==
    IF w.dump_policy.kind = "NeverDump" THEN Result(w, "none", RetUnit, 1, NoSnap)
    ELSE IF o.res = "ser" THEN DumpError(w, "Serialization")
    ELSE LET ser_db == serialize_db(w.map, w.list_map)
             temp_file_path == w.now
         IN  IF o.res = "write"
               THEN DumpError([w EXCEPT !.temps = IF o.cut > 0
                                                    THEN @ \cup {temp_file_path}
                                                    ELSE @], "Io")
             ELSE IF o.res = "rename"
               THEN DumpError([w EXCEPT !.temps = @ \cup {temp_file_path}], "Io")
             ELSE DumpDone(w, ser_db, temp_file_path, o.dt)

NoDump(w) == Result(w, "none", RetUnit, 0, NoSnap)

\* dumpdb() that dumps under PeriodicDump only.
dumpdb_periodic_only(w, o) ==
    IF w.dump_policy.kind = "PeriodicDump"
         /\ w.now - w.last_dump > w.dump_policy.dur
      THEN dump([w EXCEPT !.last_dump = w.now], o)
      ELSE NoDump(w)

\* KeyValueDb::dumpdb, the conditional dump.
dumpdb(w, o) ==
    CASE w.dump_policy.kind = "AutoDump" -> dump(w, o)
      [] w.dump_policy.kind = "PeriodicDump" ->
            IF w.now - w.last_dump > w.dump_policy.dur
              THEN dump([w EXCEPT !.last_dump = w.now], o)
              ELSE NoDump(w)
      [] OTHER -> NoDump(w)

(* --------------------------- Storage Core ----------------------------- *)

\* set() that leaves a list stored under key in place.
set_keep_list(w, key, value, o) ==
    LET ser_data == serialize_data(value)
    IN  IF ~ser_data.ok THEN Result(w, "Serialization", RetUnit, 0, NoSnap)
        ELSE LET d == dumpdb([w EXCEPT !.map = Insert(@, key, ser_data.bytes)], o)
             IN  IF d.err = "none" THEN d
                 ELSE [d EXCEPT !.w.map = IF key \in DOMAIN w.map
                                            THEN Insert(@, key, w.map[key])
                                            ELSE Remove(@, key)]

\* KeyValueDb::set
set(w, key, value, o) ==
    LET w1 == IF key \in DOMAIN w.list_map
                THEN [w EXCEPT !.list_map = Remove(@, key)] ELSE w
        ser_data == serialize_data(value)
    IN  IF ~ser_data.ok THEN Result(w1, "Serialization", RetUnit, 0, NoSnap)
        ELSE LET d == dumpdb([w1 EXCEPT !.map = Insert(@, key, ser_data.bytes)], o)
             IN  IF d.err = "none" THEN d
                 ELSE [d EXCEPT !.w.map = IF key \in DOMAIN w1.map
                                            THEN Insert(@, key, w1.map[key])
                                            ELSE Remove(@, key)]

\* KeyValueDb::get
get(w, type, key) ==
    IF key \in DOMAIN w.map THEN deserialize_data(type, w.map[key]) ELSE None

\* KeyValueDb::exists
exists(w, key) == key \in DOMAIN w.map \/ key \in DOMAIN w.list_map

\* The orders in which a HashMap may yield the keys S: every enumeration of S
\* without repetition.
KeyOrders(S) ==
    {q \in [1..Cardinality(S) -> S] : \A i, j \in DOMAIN q : q[i] = q[j] => i = j}

\* KeyValueDb::get_all: the scalar keys followed by the list keys, each group
\* in the order its HashMap yields; the set of the vectors it may return.
get_all(w) ==
    {a \o b : a \in KeyOrders(DOMAIN w.map), b \in KeyOrders(DOMAIN w.list_map)}

total_keys_scalars(w) == Cardinality(DOMAIN w.map)

\* KeyValueDb::total_keys
total_keys(w) == Cardinality(DOMAIN w.map) + Cardinality(DOMAIN w.list_map)

LastSnap(d1, d2) == IF d2.snap.some THEN d2.snap ELSE d1.snap

\* rem() that does not put the removed entry back when its dump fails.
rem_no_rollback(w, key, o1, o2) ==
    LET in_map == key \in DOMAIN w.map
        d1 == IF in_map THEN dumpdb([w EXCEPT !.map = Remove(@, key)], o1)
              ELSE NoDump(w)
    IN  IF d1.err # "none" THEN d1
        ELSE LET w1 == d1.w
                 in_list == key \in DOMAIN w1.list_map
                 d2 == IF in_list
                         THEN dumpdb([w1 EXCEPT !.list_map = Remove(@, key)], o2)
                         ELSE NoDump(w1)
             IN  IF d2.err # "none"
                   THEN [d2 EXCEPT !.calls = d1.calls + d2.calls,
                                   !.snap = d1.snap]
                   ELSE [d2 EXCEPT !.ret = RetBool(in_map \/ in_list),
                                   !.calls = d1.calls + d2.calls,
                                   !.snap = LastSnap(d1, d2)]

\* KeyValueDb::rem: the scalar map first, then the list map, each removal
\* followed by its own conditional dump.
rem(w, key, o1, o2) ==
    LET in_map == key \in DOMAIN w.map
        d1 == IF in_map THEN dumpdb([w EXCEPT !.map = Remove(@, key)], o1)
              ELSE NoDump(w)
    IN  IF d1.err # "none" THEN [d1 EXCEPT !.w.map = Insert(@, key, w.map[key])]
        ELSE LET w1 == d1.w
                 in_list == key \in DOMAIN w1.list_map
                 d2 == IF in_list
                         THEN dumpdb([w1 EXCEPT !.list_map = Remove(@, key)], o2)
                         ELSE NoDump(w1)
             IN  IF d2.err # "none"
                   THEN [d2 EXCEPT !.w.list_map = Insert(@, key, w1.list_map[key]),
                                   !.calls = d1.calls + d2.calls,
                                   !.snap = d1.snap]
                   ELSE [d2 EXCEPT !.ret = RetBool(in_map \/ in_list),
                                   !.calls = d1.calls + d2.calls,
                                   !.snap = LastSnap(d1, d2)]

(* ----------------------------- list operations ------------------------ *)

\* lcreate() that leaves a scalar stored under name in place.
lcreate_keep_list(w, name, o) ==
    LET w1 == IF name \in DOMAIN w.map THEN [w EXCEPT !.map = Remove(@, name)] ELSE w
        w2 == IF name \in DOMAIN w.list_map THEN w1
              ELSE [w1 EXCEPT !.list_map = Insert(@, name, <<>>)]
        d == dumpdb(w2, o)
    IN  IF d.err # "none" THEN d ELSE [d EXCEPT !.ret = RetExtender(name)]

lcreate_keep_scalar(w, name, o) ==
    LET d == dumpdb([w EXCEPT !.list_map = Insert(@, name, <<>>)], o)
    IN  IF d.err # "none" THEN d ELSE [d EXCEPT !.ret = RetExtender(name)]

\* KeyValueDb::lcreate
lcreate(w, name, o) ==
    LET w1 == IF name \in DOMAIN w.map THEN [w EXCEPT !.map = Remove(@, name)] ELSE w
        d == dumpdb([w1 EXCEPT !.list_map = Insert(@, name, <<>>)], o)
    IN  IF d.err # "none" THEN d ELSE [d EXCEPT !.ret = RetExtender(name)]

\* KeyValueDb::lexists
lexists(w, name) == name \in DOMAIN w.list_map

\* lextend() that puts the new elements in front of the list.
lextend_front(w, name, seq, o) ==
    IF name \notin DOMAIN w.list_map THEN Result(w, "none", RetNone, 0, NoSnap)
    ELSE LET original_len == Len(w.list_map[name])
             serialized == [i \in 1..Len(seq) |-> serialize_data(seq[i]).bytes]
             d == dumpdb([w EXCEPT !.list_map[name] = serialized \o @], o)
         IN  IF d.err = "none" THEN [d EXCEPT !.ret = RetExtender(name)]
             ELSE [d EXCEPT !.w.list_map[name] = SubSeq(@, Len(seq) + 1, Len(@)),
                            !.err = "none", !.ret = RetNone]

\* lextend() that keeps the appended elements when its dump fails.
lextend_no_truncate(w, name, seq, o) ==
    IF name \notin DOMAIN w.list_map THEN Result(w, "none", RetNone, 0, NoSnap)
    ELSE LET serialized == [i \in 1..Len(seq) |-> serialize_data(seq[i]).bytes]
             d == dumpdb([w EXCEPT !.list_map[name] = @ \o serialized], o)
         IN  IF d.err = "none" THEN [d EXCEPT !.ret = RetExtender(name)]
             ELSE [d EXCEPT !.err = "none", !.ret = RetNone]

\* KeyValueDb::lextend; every value of seq is serializable (the code unwraps
\* serialize_data's result).
lextend(w, name, seq, o) ==
    IF name \notin DOMAIN w.list_map THEN Result(w, "none", RetNone, 0, NoSnap)
    ELSE LET original_len == Len(w.list_map[name])
             serialized == [i \in 1..Len(seq) |-> serialize_data(seq[i]).bytes]
             d == dumpdb([w EXCEPT !.list_map[name] = @ \o serialized], o)
         IN  IF d.err = "none" THEN [d EXCEPT !.ret = RetExtender(name)]
             ELSE [d EXCEPT !.w.list_map[name] = SubSeq(@, 1, original_len),
                            !.err = "none", !.ret = RetNone]

\* KeyValueDb::ladd
ladd(w, name, value, o) == lextend(w, name, <<value>>, o)

\* The call did not return: an unwrap() of None panicked.
RetPanic == [RetUnit EXCEPT !.tag = "panic"]

\* KeyValueDbListExtender::lextend: the Store's lextend on the bound list
\* name, its Option unwrapped.
extender_lextend(w, list_name, seq, o) ==
    LET r == lextend(w, list_name, seq, o)
    IN  IF r.ret = RetNone THEN [r EXCEPT !.ret = RetPanic] ELSE r

\* KeyValueDbListExtender::ladd
extender_ladd(w, list_name, value, o) ==
    LET r == ladd(w, list_name, value, o)
    IN  IF r.ret = RetNone THEN [r EXCEPT !.ret = RetPanic] ELSE r

\* KeyValueDb::lget; pos counts from 0.
lget(w, type, name, pos) ==
    IF name \in DOMAIN w.list_map /\ pos < Len(w.list_map[name])
      THEN deserialize_data(type, w.list_map[name][pos + 1])
      ELSE None

\* KeyValueDb::llen
llen(w, name) == IF name \in DOMAIN w.list_map THEN Len(w.list_map[name]) ELSE 0

\* KeyValueDb::lrem_list
lrem_list(w, name, o) ==
    LET res == llen(w, name) IN
    IF name \notin DOMAIN w.list_map THEN Result(w, "none", RetUsize(res), 0, NoSnap)
    ELSE LET d == dumpdb([w EXCEPT !.list_map = Remove(@, name)], o)
         IN  IF d.err = "none" THEN [d EXCEPT !.ret = RetUsize(res)]
             ELSE [d EXCEPT !.w.list_map = Insert(@, name, w.list_map[name])]

\* lpop() that puts the element back at the end when its dump fails.
lpop_push_back(w, type, name, pos, o) ==
    IF name \notin DOMAIN w.list_map \/ pos >= Len(w.list_map[name])
      THEN Result(w, "none", RetNone, 0, NoSnap)
    ELSE LET res == w.list_map[name][pos + 1]
             d == dumpdb([w EXCEPT !.list_map[name] = RemoveAt(@, pos + 1)], o)
         IN  IF d.err = "none"
               THEN [d EXCEPT !.ret = RetValue(deserialize_data(type, res))]
               ELSE [d EXCEPT !.w.list_map[name] = Append(@, res),
                              !.err = "none", !.ret = RetNone]

\* KeyValueDb::lpop::<V>; pos counts from 0.
lpop(w, type, name, pos, o) ==
    IF name \notin DOMAIN w.list_map \/ pos >= Len(w.list_map[name])
      THEN Result(w, "none", RetNone, 0, NoSnap)
    ELSE LET res == w.list_map[name][pos + 1]
             d == dumpdb([w EXCEPT !.list_map[name] = RemoveAt(@, pos + 1)], o)
         IN  IF d.err = "none"
               THEN [d EXCEPT !.ret = RetValue(deserialize_data(type, res))]
               ELSE [d EXCEPT !.w.list_map[name] = InsertAt(@, pos + 1, res),
                              !.err = "none", !.ret = RetNone]

\* The first index (from 1) of list holding bytes, 0 when there is none.
Position(list, bytes) ==
    IF \E i \in 1..Len(list) : list[i] = bytes
      THEN CHOOSE i \in 1..Len(list) :
              list[i] = bytes /\ \A j \in 1..(i - 1) : list[j] # bytes
      ELSE 0

\* lrem_value() that removes the last element equal to the value.
lrem_value_last(w, name, value, o) ==
    IF name \notin DOMAIN w.list_map THEN Result(w, "none", RetBool(FALSE), 0, NoSnap)
    ELSE LET serialized_value == serialize_data(value) IN
         IF ~serialized_value.ok THEN Result(w, "Serialization", RetUnit, 0, NoSnap)
         ELSE LET list == w.list_map[name]
                  hits == {i \in 1..Len(list) : list[i] = serialized_value.bytes}
                  pos == IF hits = {} THEN 0
                         ELSE CHOOSE i \in hits : \A j \in hits : j <= i IN
              IF pos = 0 THEN Result(w, "none", RetBool(FALSE), 0, NoSnap)
              ELSE LET d == dumpdb([w EXCEPT !.list_map[name] = RemoveAt(@, pos)], o)
                   IN  IF d.err = "none" THEN [d EXCEPT !.ret = RetBool(TRUE)]
                       ELSE [d EXCEPT !.w.list_map[name] =
                                          InsertAt(@, pos, serialized_value.bytes)]

\* KeyValueDb::lrem_value
lrem_value(w, name, value, o) ==
    IF name \notin DOMAIN w.list_map THEN Result(w, "none", RetBool(FALSE), 0, NoSnap)
    ELSE LET serialized_value == serialize_data(value) IN
         IF ~serialized_value.ok THEN Result(w, "Serialization", RetUnit, 0, NoSnap)
         ELSE LET pos == Position(w.list_map[name], serialized_value.bytes) IN
              IF pos = 0 THEN Result(w, "none", RetBool(FALSE), 0, NoSnap)
              ELSE LET d == dumpdb([w EXCEPT !.list_map[name] = RemoveAt(@, pos)], o)
                   IN  IF d.err = "none" THEN [d EXCEPT !.ret = RetBool(TRUE)]
                       ELSE [d EXCEPT !.w.list_map[name] =
                                          InsertAt(@, pos, serialized_value.bytes)]

(* ------------------------------ lifecycle ----------------------------- *)

\* KeyValueDb::new: an empty Store; the file is neither read nor written.
new(w, policy) ==
    Result([w EXCEPT !.map = EmptyMap, !.list_map = EmptyMap,
                     !.dump_policy = policy, !.last_dump = w.now],
           "none", RetUnit, 0, NoSnap)

\* load() that restores the scalar map only.
load_scalars_only(w, policy, readable) ==
    IF ~w.file.exists \/ ~readable THEN Result(w, "Io", RetUnit, 0, NoSnap)
    ELSE LET maps_from_file == deserialize_db(w.file.bytes) IN
         IF ~maps_from_file.ok THEN Result(w, "Serialization", RetUnit, 0, NoSnap)
         ELSE Result([w EXCEPT !.map = maps_from_file.map,
                               !.list_map = EmptyMap,
                               !.dump_policy = policy, !.last_dump = w.now],
                     "none", RetUnit, 0, NoSnap)

\* load() that takes a file it cannot decode for an empty snapshot.
load_lenient(w, policy, readable) ==
    IF ~w.file.exists \/ ~readable THEN Result(w, "Io", RetUnit, 0, NoSnap)
    ELSE LET maps_from_file == deserialize_db(w.file.bytes) IN
         Result([w EXCEPT !.map = maps_from_file.map,
                          !.list_map = maps_from_file.list_map,
                          !.dump_policy = policy, !.last_dump = w.now],
                "none", RetUnit, 0, NoSnap)

\* KeyValueDb::load; readable is whether fs::read succeeds on an existing file.
load(w, policy, readable) ==
    IF ~w.file.exists \/ ~readable THEN Result(w, "Io", RetUnit, 0, NoSnap)
    ELSE LET maps_from_file == deserialize_db(w.file.bytes) IN
         IF ~maps_from_file.ok THEN Result(w, "Serialization", RetUnit, 0, NoSnap)
         ELSE Result([w EXCEPT !.map = maps_from_file.map,
                               !.list_map = maps_from_file.list_map,
                               !.dump_policy = policy, !.last_dump = w.now],
                     "none", RetUnit, 0, NoSnap)

\* Drop that skips the last dump under NeverDump only.
drop_unless_never(w, o) ==
    IF w.dump_policy.kind # "NeverDump"
      THEN [dump(w, o) EXCEPT !.err = "none"]
      ELSE NoDump(w)

\* Drop that dumps as a mutating call does.
drop_conditional(w, o) ==
    [dumpdb(w, o) EXCEPT !.err = "none"]

\* Drop for KeyValueDb: one last dump unless the policy is NeverDump or
\* DumpUponRequest; its error is ignored.
drop(w, o) ==
    IF w.dump_policy.kind \notin {"NeverDump", "DumpUponRequest"}
      THEN [dump(w, o) EXCEPT !.err = "none"]
      ELSE NoDump(w)

(* --------------------------- the state machine ------------------------ *)

VARIABLES
    map,          \* KeyValueDb.map: key -> serialized value
    list_map,     \* KeyValueDb.list_map: key -> sequence of serialized values
    dump_policy,  \* KeyValueDb.dump_policy
    last_dump,    \* KeyValueDb.last_dump
    file,         \* the backing file
    temps,        \* the temp files left on disk, by their seconds suffix
    now,          \* the clock
    alive,        \* whether the program holds a Store
    last,         \* the last call and its outcome
    extender,     \* the list name of the live KeyValueDbListExtender, "" if none
    durable,      \* what the backing file is due to hold: its content at the
                  \* start, or the maps of the last dump that replaced it
    flushed       \* when the Store's last successful dump ended, or when the
                  \* Store was constructed if it has made none

vars ==
    <<map, list_map, dump_policy, last_dump, file, temps, now, alive, last,
      extender, durable, flushed>>

World ==
    [map |-> map, list_map |-> list_map, dump_policy |-> dump_policy,
     last_dump |-> last_dump, file |-> file, temps |-> temps, now |-> now]

\* No file, a file that does not decode, and a file holding a snapshot.
InitialFiles ==
    {NoFile, FileOf(<<9>>),
     FileOf(serialize_db("a" :> <<1>>, "b" :> << <<1>> >>))}

NoPolicy == [kind |-> "NeverDump", dur |-> 0]

\* What is kept of the last call: its kind ("new", "load", "drop", "dump",
\* "panic" for a call that panicked, or "mutation" for the other calls on a
\* Store), the error it returned,
\* whether a dump() it called failed, whether it replaced the backing file.
OpRec(kind, r) ==
    [kind |-> kind, err |-> r.err, failed |-> r.failed, wrote |-> r.snap.some]

\* The world after a call that began no later than MaxTime; a dump that takes
\* time may end after it.
Install(w) ==
    /\ now <= MaxTime
    /\ map' = w.map
    /\ list_map' = w.list_map
    /\ dump_policy' = w.dump_policy
    /\ last_dump' = w.last_dump
    /\ file' = w.file
    /\ temps' = w.temps
    /\ now' = w.now

Durable(r) ==
    IF r.snap.some
      THEN [from_dump |-> TRUE, file |-> NoFile,
            map |-> r.snap.map, list_map |-> r.snap.list_map]
      ELSE durable

\* The extender a call leaves in the caller's hands: the one it returned.
\* An extender borrows the Store, so any other call ends its life.
Handle(r) == IF r.ret.tag = "extender" THEN r.ret.name ELSE ""

\* A call on the live Store.
Call(rec, r) ==
    /\ alive
    /\ Install(r.w)
    /\ last' = rec
    /\ extender' = Handle(r)
    /\ durable' = Durable(r)
    /\ flushed' = (IF r.snap.some THEN r.w.now ELSE flushed)
    /\ alive' = TRUE

(* The callers and the environment E of a run:                             *)
(*   keys, values   what the callers pass to the operations                *)
(*   maxlen         the longest list they build                            *)
(*   fates          the fates the file system has in store for a dump      *)
(*   policies       the dump policies they construct Stores with           *)

\* The fates worth telling apart for a call whose dry run is r0: the file
\* system has no say when the call does not reach dump()'s I/O.
Fates(E, w, r0) ==
    IF r0.calls = 0 \/ w.dump_policy.kind = "NeverDump" THEN {OkNow} ELSE E.fates

SeqsUpTo(V, n) == UNION {[1..k -> V] : k \in 0..n}

Serializable(V) == {v \in V : serialize_data(v).ok}

FreshStore(policies, files) ==
    /\ map = EmptyMap
    /\ list_map = EmptyMap
    /\ dump_policy \in policies
    /\ last_dump = 0
    /\ file \in files
    /\ temps = {}
    /\ now = 0
    /\ alive = TRUE
    /\ extender = ""
    /\ last = OpRec("new", Result(World, "none", RetUnit, 0, NoSnap))
    /\ durable = [from_dump |-> FALSE, file |-> file,
                  map |-> EmptyMap, list_map |-> EmptyMap]
    /\ flushed = 0

Set(E) ==
    \E key \in E.keys, value \in E.values :
        \E o \in Fates(E, World, set(World, key, value, OkNow)) :
            LET r == set(World, key, value, o)
            IN  Call(OpRec("mutation", r), r)

Rem(E) ==
    \E key \in E.keys :
        \E o1 \in Fates(E, World, rem(World, key, OkNow, OkNow)) :
            \E o2 \in (IF rem(World, key, OkNow, OkNow).calls > 1
                         THEN E.fates ELSE {o1}) :
                LET r == rem(World, key, o1, o2)
                IN  Call(OpRec("mutation", r), r)

Lcreate(E) ==
    \E name \in E.keys :
        \E o \in Fates(E, World, lcreate(World, name, OkNow)) :
            LET r == lcreate(World, name, o)
            IN  Call(OpRec("mutation", r), r)

Ladd(E) ==
    \E name \in E.keys, value \in Serializable(E.values) :
        /\ llen(World, name) + 1 <= E.maxlen
        /\ \E o \in Fates(E, World, ladd(World, name, value, OkNow)) :
              LET r == ladd(World, name, value, o)
              IN  Call(OpRec("mutation", r), r)

Lextend(E) ==
    \E name \in E.keys, seq \in SeqsUpTo(Serializable(E.values), E.maxlen) :
        /\ llen(World, name) + Len(seq) <= E.maxlen
        /\ \E o \in Fates(E, World, lextend(World, name, seq, OkNow)) :
              LET r == lextend(World, name, seq, o)
              IN  Call(OpRec("mutation", r), r)

LremList(E) ==
    \E name \in E.keys :
        \E o \in Fates(E, World, lrem_list(World, name, OkNow)) :
            LET r == lrem_list(World, name, o)
            IN  Call(OpRec("mutation", r), r)

Lpop(E) ==
    \E name \in E.keys, pos \in 0..E.maxlen, type \in Types :
        \E o \in Fates(E, World, lpop(World, type, name, pos, OkNow)) :
            LET r == lpop(World, type, name, pos, o)
            IN  Call(OpRec("mutation", r), r)

LremValue(E) ==
    \E name \in E.keys, value \in E.values :
        \E o \in Fates(E, World, lrem_value(World, name, value, OkNow)) :
            LET r == lrem_value(World, name, value, o)
            IN  Call(OpRec("mutation", r), r)

Dump(E) ==
    \E o \in Fates(E, World, dump(World, OkNow)) :
        LET r == dump(World, o)
        IN  Call(OpRec("dump", r), r)

\* The Store goes out of scope; nothing of it is left in memory.
Drop(E) ==
    \E o \in Fates(E, World, drop(World, OkNow)) :
        LET r == drop(World, o)
        IN  /\ alive
            /\ Install([r.w EXCEPT !.map = EmptyMap, !.list_map = EmptyMap,
                                   !.dump_policy = NoPolicy, !.last_dump = 0])
            /\ last' = OpRec("drop", r)
            /\ extender' = ""
            /\ durable' = Durable(r)
            /\ flushed' = 0
            /\ alive' = FALSE

New(E) ==
    \E policy \in E.policies :
        LET r == new(World, policy)
        IN  /\ ~alive
            /\ Install(r.w)
            /\ last' = OpRec("new", r)
            /\ extender' = ""
            /\ alive' = TRUE
            /\ flushed' = now
            /\ UNCHANGED durable

Load(E) ==
    \E policy \in E.policies, readable \in BOOLEAN :
        LET r == load(World, policy, readable)
        IN  /\ ~alive
            /\ Install(r.w)
            /\ last' = OpRec("load", r)
            /\ extender' = ""
            /\ alive' = (r.err = "none")
            /\ flushed' = (IF r.err = "none" THEN now ELSE 0)
            /\ UNCHANGED durable

\* What follows a call r that panicked: the panic is caught and the Store
\* lives on, or the Store is dropped while the thread unwinds (with its last
\* dump, of fate o), or the process aborts and no destructor runs.
Panicked(r, o) ==
    \E after \in {"caught", "unwound", "aborted"} :
        LET d == IF after = "unwound" THEN drop(r.w, o) ELSE NoDump(r.w)
        IN  /\ alive
            /\ last' = OpRec("panic", r)
            /\ extender' = ""
            /\ durable' = Durable(d)
            /\ IF after = "caught"
                 THEN /\ Install(r.w)
                      /\ alive' = TRUE
                      /\ flushed' = flushed
                 ELSE /\ Install([d.w EXCEPT !.map = EmptyMap,
                                             !.list_map = EmptyMap,
                                             !.dump_policy = NoPolicy,
                                             !.last_dump = 0])
                      /\ alive' = FALSE
                      /\ flushed' = 0

\* extender.ladd(value) on the live extender.
ExtenderLadd(E) ==
    \E list_name \in {extender} \cap E.keys, value \in Serializable(E.values) :
        /\ llen(World, list_name) + 1 <= E.maxlen
        /\ \E o \in E.fates, o2 \in E.fates :
              LET r == extender_ladd(World, list_name, value, o)
              IN  IF r.ret = RetPanic THEN Panicked(r, o2)
                  ELSE o2 = OkNow /\ Call(OpRec("mutation", r), r)

\* extender.lextend(seq)
ExtenderLextend(E) ==
    \E list_name \in {extender} \cap E.keys,
       seq \in SeqsUpTo(Serializable(E.values), E.maxlen) :
        /\ llen(World, list_name) + Len(seq) <= E.maxlen
        /\ \E o \in E.fates, o2 \in E.fates :
              LET r == extender_lextend(World, list_name, seq, o)
              IN  IF r.ret = RetPanic THEN Panicked(r, o2)
                  ELSE o2 = OkNow /\ Call(OpRec("mutation", r), r)

Tick ==
    /\ now < MaxTime
    /\ now' = now + 1
    /\ UNCHANGED <<map, list_map, dump_policy, last_dump, file, temps, alive,
                   last, extender, durable, flushed>>

(* ----------------------------- specifications ------------------------- *)
(* The maps, the file and the clock multiply: each specification varies    *)
(* what its claims are about and keeps the rest small.                     *)

\* The fates of a dump that takes no time.
InstantFates == {o \in Outcomes : o.dt = 0}

AutoDump == [kind |-> "AutoDump", dur |-> 0]

PeriodicPolicies == {p \in Policies : p.kind = "PeriodicDump"}

\* Every policy, Stores dropped and loaded again, a clock that stands still.
Env ==
    [keys |-> Keys, values |-> {IntV(1), BadV}, maxlen |-> ShortListLen,
     fates |-> InstantFates, policies |-> Policies]

Init == FreshStore(Policies, InitialFiles)

Next ==
    \/ Set(Env)
    \/ Rem(Env)
    \/ Lcreate(Env)
    \/ Ladd(Env)
    \/ Lextend(Env)
    \/ LremList(Env)
    \/ Lpop(Env)
    \/ LremValue(Env)
    \/ Dump(Env)
    \/ Drop(Env)
    \/ New(Env)
    \/ Load(Env)

Spec == Init /\ [][Next]_vars

\* AutoDump with values of two types and longer lists.
EnvAuto ==
    [keys |-> Keys, values |-> Values \cup {BadV}, maxlen |-> MaxListLen,
     fates |-> InstantFates, policies |-> {AutoDump}]

InitAuto == FreshStore({AutoDump}, InitialFiles)

NextAuto ==
    \/ Set(EnvAuto)
    \/ Rem(EnvAuto)
    \/ Lcreate(EnvAuto)
    \/ Ladd(EnvAuto)
    \/ Lextend(EnvAuto)
    \/ LremList(EnvAuto)
    \/ Lpop(EnvAuto)
    \/ LremValue(EnvAuto)
    \/ Dump(EnvAuto)
    \/ Drop(EnvAuto)
    \/ New(EnvAuto)
    \/ Load(EnvAuto)

SpecAuto == InitAuto /\ [][NextAuto]_vars

\* PeriodicDump(d) with the clock running and dumps that take time.
EnvPeriodic ==
    [keys |-> Keys, values |-> {IntV(1), BadV}, maxlen |-> ShortListLen,
     fates |-> Outcomes, policies |-> PeriodicPolicies]

InitPeriodic == FreshStore(PeriodicPolicies, {NoFile})

NextPeriodic ==
    \/ Set(EnvPeriodic)
    \/ Rem(EnvPeriodic)
    \/ Lcreate(EnvPeriodic)
    \/ Ladd(EnvPeriodic)
    \/ Lextend(EnvPeriodic)
    \/ LremList(EnvPeriodic)
    \/ Lpop(EnvPeriodic)
    \/ LremValue(EnvPeriodic)
    \/ Dump(EnvPeriodic)
    \/ Drop(EnvPeriodic)
    \/ New(EnvPeriodic)
    \/ Tick

SpecPeriodic == InitPeriodic /\ [][NextPeriodic]_vars

\* The list and scalar operations of one AutoDump Store that is never torn
\* down, with dumps that succeed or fail at the rename.
RenameFails == [res |-> "rename", cut |-> 0, dt |-> 0]

EnvLists ==
    [keys |-> Keys, values |-> Values, maxlen |-> MaxListLen,
     fates |-> {OkNow, RenameFails}, policies |-> {AutoDump}]

InitLists == FreshStore({AutoDump}, {NoFile})

NextLists ==
    \/ Set(EnvLists)
    \/ Rem(EnvLists)
    \/ Lcreate(EnvLists)
    \/ Ladd(EnvLists)
    \/ Lextend(EnvLists)
    \/ LremList(EnvLists)
    \/ Lpop(EnvLists)
    \/ LremValue(EnvLists)
    \/ ExtenderLadd(EnvLists)
    \/ ExtenderLextend(EnvLists)

SpecLists == InitLists /\ [][NextLists]_vars

\* One PeriodicDump(d) Store that is never torn down, with the clock running
\* and dumps that take time.
EnvClock ==
    [keys |-> Keys, values |-> {IntV(1)}, maxlen |-> ShortListLen,
     fates |-> Outcomes, policies |-> PeriodicPolicies]

InitClock == FreshStore(PeriodicPolicies, {NoFile})

NextClock ==
    \/ Set(EnvClock)
    \/ Lcreate(EnvClock)
    \/ Ladd(EnvClock)
    \/ Dump(EnvClock)
    \/ Tick

SpecClock == InitClock /\ [][NextClock]_vars

(* -------------------------------- claims ------------------------------ *)

SameMaps(w1, w2) == w1.map = w2.map /\ w1.list_map = w2.list_map

Dumping == dump_policy.kind \in {"AutoDump", "PeriodicDump"}

\* C1 (as claimed): under AutoDump or PeriodicDump, a mutating call whose
\* conditional dump fails leaves both maps exactly as they were before it.
C1_RollbackOnDumpFailure ==
    [][(alive /\ alive' /\ Dumping /\ last'.kind = "mutation" /\ last'.failed)
          => (map' = map /\ list_map' = list_map)]_vars

\* C2: no key is in the scalar map and in the list map at the same time.
C2_MutualExclusion == DOMAIN map \cap DOMAIN list_map = {}

\* Both kinds of entries are stored and the last call was rolled back.
C2_Witness ==
    /\ alive /\ last.kind = "mutation" /\ last.failed
    /\ DOMAIN map # {} /\ DOMAIN list_map # {}

Decodes(f, m, l) ==
    /\ f.exists
    /\ LET d == deserialize_db(f.bytes) IN d.ok /\ d.map = m /\ d.list_map = l

\* C3: the backing file holds what it held at the start, or one complete
\* snapshot of the maps as they were at the last dump that succeeded.
C3_FileIsCompleteSnapshot ==
    IF durable.from_dump
      THEN Decodes(file, durable.map, durable.list_map)
      ELSE file = durable.file

\* A dump failed after the maps moved on from the snapshot in the file,
\* leaving its temp file behind.
C3_Witness ==
    /\ alive /\ last.failed /\ last.err = "Io" /\ temps # {}
    /\ durable.from_dump /\ ~SameMaps(World, durable)

\* C4: a dump() that returns an error leaves the backing file as it was.
C4_FailedDumpKeepsFile ==
    [][(last'.kind = "dump" /\ last'.err # "none") => file' = file]_vars

\* A dump() call failed at the rename while the file held an older snapshot.
C4_Witness ==
    /\ alive /\ last.kind = "dump" /\ last.err = "Io" /\ temps # {}
    /\ file.exists /\ ~Decodes(file, map, list_map)

\* C5: under AutoDump, when a mutating call that changed the maps returns
\* success, the backing file holds a snapshot equal to the maps.
C5_AutoDumpFileFollowsMaps ==
    [][(/\ alive /\ dump_policy.kind = "AutoDump"
        /\ last'.kind = "mutation" /\ last'.err = "none"
        /\ (map' # map \/ list_map' # list_map))
          => Decodes(file', map', list_map')]_vars

\* A mutating call wrote a snapshot holding a scalar and a two-element list.
C5_Witness ==
    /\ alive /\ dump_policy.kind = "AutoDump"
    /\ last.kind = "mutation" /\ last.wrote
    /\ DOMAIN map # {}
    /\ \E k \in DOMAIN list_map : Len(list_map[k]) = 2
    /\ Decodes(file, map, list_map)

\* C6: under NeverDump no call and no teardown changes the backing file or
\* creates a temp file, and dump() returns success.
C6_NeverDumpWritesNothing ==
    [][(alive /\ dump_policy.kind = "NeverDump")
          => /\ file' = file
             /\ temps' = temps
             /\ last'.kind = "dump" => last'.err = "none"]_vars

\* dump() was called on a NeverDump Store whose maps the file does not hold.
C6_Witness ==
    /\ alive /\ dump_policy.kind = "NeverDump" /\ last.kind = "dump"
    /\ DOMAIN map # {} /\ DOMAIN list_map # {}
    /\ ~Decodes(file, map, list_map)

\* C7: under DumpUponRequest only dump() changes the backing file; the
\* conditional dump of a mutating call never fails and never writes, and
\* teardown writes nothing.
C7_DumpUponRequestOnlyOnRequest ==
    [][(alive /\ dump_policy.kind = "DumpUponRequest")
          => /\ file' # file => last'.kind = "dump"
             /\ last'.kind \in {"mutation", "drop"}
                  => ~last'.failed /\ ~last'.wrote /\ temps' = temps]_vars

\* A mutating call changed the maps of a DumpUponRequest Store away from
\* the snapshot an earlier dump() left in the file.
C7_Witness ==
    /\ alive /\ dump_policy.kind = "DumpUponRequest" /\ last.kind = "mutation"
    /\ durable.from_dump /\ Decodes(file, durable.map, durable.list_map)
    /\ DOMAIN map # {} /\ DOMAIN list_map # {}
    /\ ~SameMaps(World, durable)

\* C8 (as claimed): under PeriodicDump(d) a mutation made no more than d
\* after the last successful flush (or the construction) writes nothing,
\* and one that succeeds in changing the maps more than d after it performs
\* a flush that writes the file.
C8_PeriodicFlushTiming ==
    [][(alive /\ dump_policy.kind = "PeriodicDump" /\ last'.kind = "mutation")
          => /\ now - flushed <= dump_policy.dur => file' = file /\ temps' = temps
             /\ (now - flushed > dump_policy.dur /\ last'.err = "none"
                   /\ (map' # map \/ list_map' # list_map))
                  => last'.wrote]_vars

\* C9 (as claimed): after a successful set(k, v), get(k) at v's type returns
\* v, and what get(k) returns changes only with a successful call; get(k)
\* is absent when k has no scalar entry.
C9_SetGetRoundTrip ==
    [][alive =>
        /\ \A k \in Keys, v \in Values, o \in InstantFates :
              LET r == set(World, k, v, o)
              IN  r.err = "none" => get(r.w, v.t, k) = Some(v)
        /\ \A k \in Keys \ DOMAIN map, t \in Types : get(World, t, k) = None
        /\ alive' =>
              \A k \in Keys, t \in Types :
                  get(World', t, k) # get(World, t, k)
                    => last'.kind = "mutation" /\ last'.err = "none"
                         /\ ~last'.failed]_vars

\* C10: a Store loaded from the file a successful dump() wrote has the
\* maps the dumping Store had at the time of the dump.
C10_DumpLoadRoundTrip ==
    (alive /\ dump_policy.kind # "NeverDump") =>
        \A o \in Outcomes, policy \in Policies :
            LET r == dump(World, o)
                l == load(r.w, policy, TRUE)
            IN  r.err = "none" =>
                    /\ l.err = "none"
                    /\ SameMaps(l.w, World)
                    /\ l.w.dump_policy = policy

\* A Store was loaded from a dumped snapshot holding a scalar and a list of
\* two different elements.
C10_Witness ==
    /\ alive /\ last.kind = "load" /\ last.err = "none"
    /\ durable.from_dump /\ SameMaps(World, durable)
    /\ DOMAIN map # {}
    /\ \E k \in DOMAIN list_map :
          Len(list_map[k]) = 2 /\ list_map[k][1] # list_map[k][2]

\* C11: after a successful lcreate(x), exists(x) and lexists(x) are true and
\* get(x) is absent; after a successful set(x, v), lexists(x) is false,
\* llen(x) is 0 and exists(x) is true.
C11_CreateAndSetReplace ==
    alive =>
        \A x \in Keys, o \in Outcomes :
            /\ LET r == lcreate(World, x, o)
               IN  r.err = "none" =>
                       /\ exists(r.w, x) /\ lexists(r.w, x)
                       /\ \A t \in Types : get(r.w, t, x) = None
            /\ \A v \in Values :
                   LET r == set(World, x, v, o)
                   IN  r.err = "none" =>
                           /\ ~lexists(r.w, x) /\ llen(r.w, x) = 0
                           /\ exists(r.w, x)

\* A Store holding a scalar under one key and a non-empty list under the
\* other, where lcreate on the scalar's key and set on the list's key both
\* succeed.
C11_Witness ==
    /\ alive /\ last.kind = "mutation" /\ last.wrote
    /\ \E x \in DOMAIN map, y \in DOMAIN list_map :
          /\ list_map[y] # <<>>
          /\ LET r == lcreate(World, x, OkNow)
             IN  r.err = "none" /\ r.ret = RetExtender(x) /\ r.w.list_map[x] = <<>>
          /\ LET r == set(World, y, StrV(1), OkNow)
             IN  r.err = "none" /\ get(r.w, "str", y) = Some(StrV(1))

\* C12: teardown attempts one dump() under AutoDump and PeriodicDump (also
\* when the interval has not elapsed) and none under NeverDump and
\* DumpUponRequest; it never fails; a dump that succeeds leaves the final
\* maps in the backing file and one that fails leaves the file as it was.
C12_TeardownDumpsOnce ==
    [][alive =>
        /\ \A o \in Outcomes :
              LET r == drop(World, o)
                  flushing == dump_policy.kind \in {"AutoDump", "PeriodicDump"}
              IN  /\ r.err = "none"
                  /\ r.calls = (IF flushing THEN 1 ELSE 0)
                  /\ ~flushing => r.w.file = file /\ r.w.temps = temps
                  /\ (flushing /\ o.res = "ok") =>
                        Decodes(r.w.file, map, list_map)
                  /\ (flushing /\ o.res # "ok") => r.failed /\ r.w.file = file
        /\ (~alive' /\ last'.kind = "drop") =>
              /\ last'.err = "none"
              /\ last'.wrote => Decodes(file', map, list_map)
              /\ ~last'.wrote => file' = file
              /\ (last'.wrote \/ last'.failed)
                    <=> dump_policy.kind \in {"AutoDump", "PeriodicDump"}]_vars

\* A PeriodicDump Store whose interval has not elapsed holds maps that the
\* file does not hold, and its teardown writes them.
C12_Witness ==
    /\ alive /\ dump_policy.kind = "PeriodicDump" /\ last.kind = "mutation"
    /\ now - last_dump <= dump_policy.dur
    /\ DOMAIN map # {} /\ DOMAIN list_map # {}
    /\ ~Decodes(file, map, list_map)
    /\ LET r == drop(World, OkNow)
       IN  r.calls = 1 /\ r.snap.some /\ Decodes(r.w.file, map, list_map)

\* C13: load fails with an Io error when the file cannot be read and with a
\* Serialization error when its bytes do not decode as a snapshot; otherwise
\* the maps of the Store it returns are the decoded snapshot; the backing
\* file is as it was in every case.
C13_LoadOutcomes ==
    /\ \A policy \in Policies, readable \in BOOLEAN :
          LET r == load(World, policy, readable)
              d == deserialize_db(file.bytes)
          IN  /\ r.w.file = file /\ r.w.temps = temps /\ r.calls = 0
              /\ (~file.exists \/ ~readable) => r.err = "Io"
              /\ (file.exists /\ readable /\ ~d.ok) => r.err = "Serialization"
              /\ (file.exists /\ readable /\ d.ok) =>
                    /\ r.err = "none"
                    /\ r.w.map = d.map /\ r.w.list_map = d.list_map
                    /\ r.w.dump_policy = policy
    /\ last.kind = "load" =>
          /\ alive <=> last.err = "none"
          /\ alive => Decodes(file, map, list_map)
          /\ last.err = "Serialization" =>
                file.exists /\ ~deserialize_db(file.bytes).ok

\* load failed on a file that exists and does not decode.
C13_Witness ==
    /\ ~alive /\ last.kind = "load" /\ last.err = "Serialization"
    /\ file.exists /\ ~deserialize_db(file.bytes).ok

\* C14 (as claimed): when set(key, value) returns an error because the value
\* cannot be serialized, both maps are as before the call and no file write
\* was made.
C14_UnserializableSetChangesNothing ==
    [][(/\ alive /\ last'.kind = "mutation"
        /\ last'.err = "Serialization" /\ ~last'.failed)
          => /\ map' = map /\ list_map' = list_map
             /\ file' = file /\ temps' = temps]_vars

\* The keys other than name hold in w2 what they hold in w1.
OtherKeysSame(w1, w2, name) ==
    /\ w1.map = w2.map
    /\ DOMAIN w1.list_map \ {name} = DOMAIN w2.list_map \ {name}
    /\ \A k \in DOMAIN w1.list_map \ {name} : w1.list_map[k] = w2.list_map[k]

\* C15: a successful lextend on an existing list appends the given elements
\* at the end in the given order (ladd: the one element) and leaves the
\* earlier elements and the other keys as they were; lget past the end or on
\* a missing list is absent and llen of a missing list is 0.
C15_AppendAtEnd ==
    alive =>
        \A name \in Keys :
            LET n == llen(World, name) IN
            /\ \A seq \in SeqsUpTo(Values, MaxListLen), o \in Outcomes :
                  LET r == IF Len(seq) = 1 THEN ladd(World, name, seq[1], o)
                           ELSE lextend(World, name, seq, o)
                  IN  (lexists(World, name) /\ r.ret.tag = "extender") =>
                          /\ llen(r.w, name) = n + Len(seq)
                          /\ SubSeq(r.w.list_map[name], 1, n) = list_map[name]
                          /\ \A i \in 1..Len(seq) :
                                lget(r.w, seq[i].t, name, n + i - 1) = Some(seq[i])
                          /\ OtherKeysSame(World, r.w, name)
            /\ \A t \in Types, i \in n..(n + MaxListLen) :
                  lget(World, t, name, i) = None
            /\ ~lexists(World, name) => n = 0

\* Two different elements were appended to a list, beside a scalar.
C15_Witness ==
    /\ alive /\ last.kind = "mutation" /\ last.wrote /\ DOMAIN map # {}
    /\ \E name \in DOMAIN list_map :
          /\ llen(World, name) = 2
          /\ lget(World, "str", name, 0) = Some(StrV(1))
          /\ lget(World, "int", name, 1) = Some(IntV(1))
          /\ lget(World, "int", name, 2) = None

\* C16: rem(key) returns true exactly when key was in one of the maps, and
\* then key is in neither and the other keys are as before; rem of a key in
\* neither map returns false, changes nothing and writes nothing; when its
\* dump fails rem returns the error and both maps are as before.
C16_RemOutcomes ==
    alive =>
        \A key \in Keys, o1 \in Outcomes, o2 \in Outcomes :
            LET r == rem(World, key, o1, o2)
                present == key \in DOMAIN map \/ key \in DOMAIN list_map
            IN  /\ r.err = "none" =>
                      /\ r.ret = RetBool(present)
                      /\ r.w.map = Remove(map, key)
                      /\ r.w.list_map = Remove(list_map, key)
                /\ ~present =>
                      /\ r.err = "none" /\ r.calls = 0
                      /\ r.w.file = file /\ r.w.temps = temps
                /\ r.err # "none" =>
                      /\ r.failed /\ present
                      /\ SameMaps(r.w, World) /\ r.w.file = file

\* An AutoDump Store holds a scalar and a non-empty list; rem of either
\* succeeds when the dump does and is undone when the dump fails.
C16_Witness ==
    /\ alive /\ dump_policy.kind = "AutoDump" /\ last.kind = "mutation"
    /\ \E x \in DOMAIN map, y \in DOMAIN list_map :
          /\ list_map[y] # <<>>
          /\ rem(World, x, OkNow, OkNow).ret = RetBool(TRUE)
          /\ \E o \in Outcomes :
                LET r == rem(World, y, OkNow, o)
                IN  r.err = "Io" /\ r.w.list_map[y] = list_map[y]

\* C17: ladd and lextend return a handle exactly when the list exists and
\* the conditional dump succeeds; on a missing list they return no handle
\* and change and write nothing; when the dump fails they return no handle
\* and the list holds exactly its elements of before the call.
C17_ExtendHandle ==
    alive =>
        \A name \in Keys, seq \in SeqsUpTo(Values, MaxListLen), o \in Outcomes :
            LET r == IF Len(seq) = 1 THEN ladd(World, name, seq[1], o)
                     ELSE lextend(World, name, seq, o)
            IN  /\ r.ret = RetExtender(name) \/ r.ret = RetNone
                /\ r.ret = RetExtender(name) <=> (lexists(World, name) /\ ~r.failed)
                /\ ~lexists(World, name) => r.w = World /\ r.calls = 0
                /\ r.failed => SameMaps(r.w, World) /\ r.w.file = file
                /\ (lexists(World, name) /\ dump_policy.kind = "AutoDump") =>
                      (r.failed <=> o.res # "ok")

\* ladd on a non-empty list lost its dump and the list was truncated back;
\* the other key holds no list and lextend on it does nothing.
C17_Witness ==
    /\ alive /\ last.kind = "mutation" /\ last.failed /\ last.err = "none"
    /\ \E name \in DOMAIN list_map, other \in Keys \ DOMAIN list_map :
          /\ list_map[name] # <<>>
          /\ \E o \in Outcomes :
                LET r == ladd(World, name, StrV(1), o)
                IN  r.failed /\ r.ret = RetNone /\ r.calls = 1
          /\ lextend(World, other, <<IntV(1), StrV(1)>>, OkNow).ret = RetNone

\* C18: when the conditional dump of lpop or lrem_value fails, both maps are
\* as before the call, the list's elements in their order included; lpop
\* returns absent and lrem_value returns the error.
C18_ListRemovalRollback ==
    alive =>
        \A name \in Keys, o \in Outcomes :
            /\ \A t \in Types, pos \in 0..MaxListLen :
                  LET r == lpop(World, t, name, pos, o)
                  IN  /\ r.failed =>
                            /\ SameMaps(r.w, World)
                            /\ r.ret = RetNone /\ r.err = "none"
                      /\ (pos < llen(World, name) /\ o.res # "ok"
                            /\ dump_policy.kind = "AutoDump") => r.failed
            /\ \A v \in Values :
                  LET r == lrem_value(World, name, v, o)
                  IN  /\ r.failed =>
                            /\ SameMaps(r.w, World)
                            /\ r.err \in {"Io", "Serialization"}
                      /\ (lexists(World, name) /\ o.res # "ok"
                            /\ dump_policy.kind = "AutoDump"
                            /\ Position(list_map[name], serialize_data(v).bytes) > 0)
                           => r.failed

\* A removal from a list lost its dump; the list holds the same element
\* twice, and lpop of the second and lrem_value of the first are undone when
\* their dump fails.
C18_Witness ==
    /\ alive /\ last.kind = "mutation" /\ last.failed
    /\ \E name \in DOMAIN list_map, v \in Values, o \in Outcomes :
          /\ list_map[name] = <<serialize_data(v).bytes, serialize_data(v).bytes>>
          /\ lpop(World, v.t, name, 1, o).failed
          /\ lrem_value(World, name, v, o).failed
          /\ lrem_value(World, name, v, o).w.list_map = list_map

\* C19 (as claimed): when lpop(name, index) returns a value, it is the
\* element that was at index and the list is the prior list without that
\* position; when it returns absent, the list map is as before the call.
C19_PopRemovesWhatItReturns ==
    alive =>
        \A name \in Keys, t \in Types, pos \in 0..MaxListLen, o \in Outcomes :
            LET r == lpop(World, t, name, pos, o)
            IN  /\ r.ret # RetNone =>
                      /\ lexists(World, name) /\ pos < llen(World, name)
                      /\ r.ret = RetValue(lget(World, t, name, pos))
                      /\ r.w.list_map =
                            [list_map EXCEPT ![name] = RemoveAt(@, pos + 1)]
                /\ r.ret = RetNone => r.w.list_map = list_map

\* C20: on the Store as it is and as it is after any further lextend on
\* name, a successful lrem_value(name, value) on a list holding the value's
\* bytes removes the first element equal to them, keeps every other element
\* in order and returns true; when no element matches or the list does not
\* exist it returns false, changes nothing and writes nothing.
C20_RemoveFirstMatch ==
    alive =>
        \A name \in Keys, seq \in SeqsUpTo(Values, MaxListLen),
           v \in Values, o \in Outcomes :
            LET w == lextend(World, name, seq, OkNow).w
                r == lrem_value(w, name, v, o)
                bytes == serialize_data(v).bytes
                matches == /\ lexists(w, name)
                           /\ \E i \in 1..llen(w, name) : w.list_map[name][i] = bytes
            IN  /\ r.ret = RetBool(TRUE) <=> (matches /\ r.err = "none")
                /\ (matches /\ r.err = "none") =>
                      /\ r.w.map = w.map
                      /\ \E i \in 1..llen(w, name) :
                            /\ w.list_map[name][i] = bytes
                            /\ \A j \in 1..(i - 1) : w.list_map[name][j] # bytes
                            /\ r.w.list_map =
                                  [w.list_map EXCEPT ![name] =
                                      SubSeq(@, 1, i - 1) \o SubSeq(@, i + 1, Len(@))]
                /\ ~matches =>
                      /\ r.err = "none" /\ r.ret = RetBool(FALSE)
                      /\ r.w = w /\ r.calls = 0

\* A list holds two different elements; with the first appended once more,
\* lrem_value of it removes the first and keeps the later duplicate, and
\* lrem_value on the key holding no list returns false.
C20_Witness ==
    /\ alive /\ last.kind = "mutation" /\ last.wrote
    /\ \E name \in DOMAIN list_map, other \in Keys \ DOMAIN list_map :
          /\ list_map[name] = <<serialize_data(IntV(1)).bytes,
                                serialize_data(StrV(1)).bytes>>
          /\ LET w == ladd(World, name, IntV(1), OkNow).w
                 r == lrem_value(w, name, IntV(1), OkNow)
             IN  /\ r.ret = RetBool(TRUE)
                 /\ r.w.list_map[name] = <<serialize_data(StrV(1)).bytes,
                                           serialize_data(IntV(1)).bytes>>
          /\ lrem_value(World, other, IntV(1), OkNow).ret = RetBool(FALSE)

\* C21 (as claimed): an append through the List Extender bound to an
\* existing list has the same effect on the maps, the file and last_dump,
\* and the same outcome for the caller, as the Store's ladd / lextend with
\* the extender's list name, for every dump outcome.
C21_ExtenderAsDirectCall ==
    alive =>
        \A list_name \in {extender} \cap Keys, seq \in SeqsUpTo(Values, MaxListLen),
           o \in Outcomes :
            /\ extender_lextend(World, list_name, seq, o)
                  = lextend(World, list_name, seq, o)
            /\ seq # <<>> =>
                  extender_ladd(World, list_name, seq[1], o)
                     = ladd(World, list_name, seq[1], o)

\* C22 (as claimed): under PeriodicDump(interval) the conditional dump calls
\* dump() exactly when now - last_dump > interval, and after an attempted
\* flush last_dump is the time the attempt started, whether the dump
\* succeeded or failed.
C22_LastDumpIsAttemptTime ==
    (alive /\ dump_policy.kind = "PeriodicDump") =>
        \A o \in Outcomes :
            LET r == dumpdb(World, o)
            IN  /\ r.calls = 1 <=> now - last_dump > dump_policy.dur
                /\ r.calls = 0 => r.w = World
                /\ r.calls = 1 => r.w.last_dump = now

\* C22 (amended): under PeriodicDump(interval) the conditional dump calls
\* dump() exactly when now - last_dump > interval; after an attempted flush
\* that failed last_dump is the time the attempt started, and after one that
\* succeeded it is the time the dump completed.
C22_LastDumpAfterFlush ==
    (alive /\ dump_policy.kind = "PeriodicDump") =>
        \A o \in Outcomes :
            LET r == dumpdb(World, o)
            IN  /\ r.calls \in {0, 1}
                /\ r.calls = 1 <=> now - last_dump > dump_policy.dur
                /\ r.calls = 0 => r.w = World
                /\ (r.calls = 1 /\ r.err # "none") =>
                      r.w.last_dump = now /\ r.w.now = now
                /\ (r.calls = 1 /\ r.err = "none") =>
                      r.w.last_dump = now + o.dt /\ r.w.now = now + o.dt

\* The interval of a PeriodicDump Store has elapsed since a flush that
\* succeeded, and a flush that takes time is due.
C22_Witness ==
    /\ alive /\ dump_policy.kind = "PeriodicDump" /\ last.kind = "mutation"
    /\ durable.from_dump /\ last_dump = flushed
    /\ now - last_dump > dump_policy.dur
    /\ \E o \in Outcomes :
          LET r == dumpdb(World, o)
          IN  o.dt > 0 /\ r.snap.some /\ r.w.last_dump > now

\* C23: a successful lcreate(name) leaves an empty list under name whatever
\* name held before (a scalar, a non-empty list or nothing): llen(name) is
\* 0, every other key holds what it held, and the returned List Extender is
\* bound to name.
C23_CreateInstallsEmptyList ==
    alive =>
        \A name \in Keys, o \in Outcomes :
            LET r == lcreate(World, name, o)
            IN  r.err = "none" =>
                    /\ lexists(r.w, name) /\ llen(r.w, name) = 0
                    /\ r.w.list_map[name] = <<>>
                    /\ name \notin DOMAIN r.w.map
                    /\ \A k \in Keys \ {name} :
                          /\ k \in DOMAIN r.w.map <=> k \in DOMAIN map
                          /\ k \in DOMAIN map => r.w.map[k] = map[k]
                          /\ k \in DOMAIN r.w.list_map <=> k \in DOMAIN list_map
                          /\ k \in DOMAIN list_map => r.w.list_map[k] = list_map[k]
                    /\ r.ret = RetExtender(name) /\ Handle(r) = name

\* Both keys hold non-empty lists, and lcreate on one of them succeeds and
\* empties it while the other keeps its elements.
C23_Witness ==
    /\ alive /\ last.kind = "mutation"
    /\ \E name \in DOMAIN list_map, other \in DOMAIN list_map :
          /\ name # other
          /\ llen(World, name) > 0 /\ llen(World, other) > 0
          /\ LET r == lcreate(World, name, OkNow)
             IN  /\ r.err = "none" /\ llen(r.w, name) = 0
                 /\ r.w.list_map[other] = list_map[other]
                 /\ Handle(r) = name

\* C24: in every reachable state, for every vector get_all() may return:
\* exists(k) is true exactly when k occurs in it, no key occurs in it twice,
\* and total_keys() equals its length, which equals the number of distinct
\* keys stored.
C24_KeyEnumerationsAgree ==
    alive =>
        \A all \in get_all(World) :
            /\ \A k \in Keys : exists(World, k) <=> \E i \in DOMAIN all : all[i] = k
            /\ \A i, j \in DOMAIN all : all[i] = all[j] => i = j
            /\ total_keys(World) = Len(all)
            /\ Len(all) = Cardinality(DOMAIN map \cup DOMAIN list_map)

\* After a mutation a Store holds a scalar under one key and a list under
\* the other: get_all() lists the scalar's key, then the list's.
C24_Witness ==
    /\ alive /\ last.kind = "mutation"
    /\ \E x \in DOMAIN map, y \in DOMAIN list_map :
          /\ get_all(World) = {<<x, y>>}
          /\ total_keys(World) = 2
          /\ exists(World, x) /\ exists(World, y)

\* C25 (as claimed): no two dumps of one Store use the same temporary path:
\* whenever a dump() writes its temp file (it goes on to the rename, or its
\* write fails leaving bytes behind), no temp file left behind by an earlier
\* dump of this Store is at that path.
C25_TempPathUnique ==
    (alive /\ dump_policy.kind # "NeverDump") =>
        \A o \in Outcomes :
            LET r == dump(World, o)
            IN  (r.snap.some \/ TempPathOf(World) \in r.w.temps) =>
                    TempPathOf(World) \notin temps

====
